---- MODULE Spec2Model ----
(***************************************************************************)
(* Connect-Stethoscope: a two-servo rig with a pixel display, four display *)
(* buttons, a rotary encoder and a mode button, driven by a polling loop.  *)
(*                                                                         *)
(* Two program variants are modelled:                                      *)
(*   "single"  src/steth-single.py      (run/stop, speed, display modes,   *)
(*                                       ApplicationController)            *)
(*   "simple"  src/stethoscope-simple.py (bounds editing only)             *)
(*                                                                         *)
(* Angles are kept in units of 1/AngleScale degree, so that the float      *)
(* expression  speed * time_delta / 1000  of update() is the exact integer *)
(* speed * time_delta.  Bounds and speed are whole degrees / degrees per   *)
(* second, as in the source.                                               *)
(***************************************************************************)
EXTENDS Integers, Sequences, FiniteSets, TLC

VARIABLES
  variant,            \* which program runs: "single" or "simple"
  servo,              \* ServoController objects, by index (1 = servoD5, 2 = servoD7)
  application_state,  \* ApplicationController.application_state
  menu,               \* ButtonController objects buttons0..buttons2: _time_last_checked
  control,            \* app_control_button_controller: _time_last_checked
  rotary,             \* RotaryController: _time_last_checked, _old_value, _new_value
  now,                \* utime.ticks_ms()
  pressed,            \* display buttons whose level is "pressed"
  pin_pressed,        \* level of the mode button (PinButton 26)
  count,              \* the encoder driver's counter, RotaryIRQ.value()
  pc,                 \* position in the main loop
  loops,              \* main-loop iterations started
  calls,              \* method calls made by the class-level driver
  op,                 \* history: the last operation performed
  pre,                \* history: the program state before the last operation
  dispatched,         \* history: the method calls the last operation dispatched
  fired,              \* history: per button controller, its latest dispatching poll
  inputs,             \* history: what the user has done since power-on
  drawn,              \* per servo, what draw() last computed: _tick_min, _tick_max, _marker_pos
  ticked,             \* history: the calls the last ApplicationController.update() made
  prior,              \* history: the objects before the call preceding the last one,
                      \*          kept when that call was increment_value()
  rescaled            \* the arguments and the result of a rescale() call

vars == <<variant, servo, application_state, menu, control, rotary, now, pressed,
          pin_pressed, count, pc, loops, calls, op, pre, dispatched, fired, inputs,
          drawn, ticked, prior, rescaled>>

-----------------------------------------------------------------------------
(* Bounds of the model *)

\* method calls the class-level driver makes on one ServoController
MaxCalls == 4
\* main-loop iterations the program model runs
MaxLoops == 4

(* Program constants *)

\* update(): angle_delta = speed * time_delta / 1000
AngleScale == 1000
\* ButtonController / PinButtonController debounce_interval default
ButtonDebounce == 500
\* RotaryController debounce_interval default
RotaryDebounce == 60
\* RotaryIRQ(min_val=-5000, max_val=+5000, range_mode=RANGE_WRAP)
RotaryMin == -5000
RotaryMax == 5000
\* ApplicationController(..., 0, 3)
NumStates == 3

Deg(d) == d * AngleScale

\* utime.ticks_diff(a, b); the model's clock stays far below the tick period,
\* where the difference is the plain one
ticks_diff(a, b) == a - b

\* int(n / d) of Python for d # 0: the quotient truncated toward zero
int_div(n, d) ==
  LET a == IF n < 0 THEN -n ELSE n
      b == IF d < 0 THEN -d ELSE d
  IN IF (n < 0) = (d < 0) THEN a \div b ELSE -(a \div b)

\* rescale() answering out_max when the input range is empty
rescale_degenerate_max(x, in_min, in_max, out_min, out_max) ==
  IF in_max - in_min = 0
  THEN out_max
  ELSE int_div((x - in_min * AngleScale) * (out_max - out_min)
                 + out_min * (in_max - in_min) * AngleScale,
               (in_max - in_min) * AngleScale)

\* rescale(x, in_min, in_max, out_min, out_max); x may be a float in the
\* source and is given here in units of 1/AngleScale, the four range ends are
\* whole numbers
rescale(x, in_min, in_max, out_min, out_max) ==
  IF in_max - in_min = 0
  THEN out_min
  ELSE int_div((x - in_min * AngleScale) * (out_max - out_min)
                 + out_min * (in_max - in_min) * AngleScale,
               (in_max - in_min) * AngleScale)

-----------------------------------------------------------------------------
(* ServoController, src/steth-single.py *)

ServoController(angle, speed, t) ==
  [ angle |-> Deg(angle), speed |-> speed,
    min_angle |-> 90, max_angle |-> 90,
    reversing |-> FALSE, display_mode |-> 0,
    min_position_being_updated |-> FALSE,
    max_position_being_updated |-> FALSE,
    position_being_updated |-> FALSE,
    speed_being_updated |-> FALSE,
    is_running |-> FALSE,
    time_ref |-> t ]

run(s) == [s EXCEPT !.is_running = TRUE]

stop(s) == [s EXCEPT !.is_running = FALSE]

display_small(s) == [s EXCEPT !.display_mode = 0]

display_full(s) == [s EXCEPT !.display_mode = 1]

\* value handed to the actuator: int(self.angle - 90), truncating toward zero
move(s) ==
  LET v == s.angle - Deg(90)
  IN IF v >= 0 THEN v \div AngleScale ELSE -((-v) \div AngleScale)

\* what draw() computes and keeps on the object: the two end tick marks and
\* the position marker, in display pixels
draw(s) ==
  [ tick_min |-> rescale(Deg(s.min_angle), 0, 180, 50, 140 + 50),
    tick_max |-> rescale(Deg(s.max_angle), 0, 180, 50, 140 + 50),
    marker_pos |-> rescale(s.angle, 0, 180, 50, 140 + 50) - 10 ]

\* min_position_setting_toggle() leaving the max flag alone
min_position_setting_toggle_unexclusive(s) ==
  LET f == ~s.min_position_being_updated
  IN [s EXCEPT !.min_position_being_updated = f,
               !.speed_being_updated = IF f THEN FALSE ELSE @,
               !.is_running = IF f THEN FALSE ELSE @]

min_position_setting_toggle(s) ==
  LET f == ~s.min_position_being_updated
  IN [s EXCEPT !.min_position_being_updated = f,
               !.max_position_being_updated = IF f THEN FALSE ELSE @,
               !.speed_being_updated = IF f THEN FALSE ELSE @,
               !.is_running = IF f THEN FALSE ELSE @]

max_position_setting_toggle(s) ==
  LET f == ~s.max_position_being_updated
  IN [s EXCEPT !.max_position_being_updated = f,
               !.min_position_being_updated = IF f THEN FALSE ELSE @,
               !.speed_being_updated = IF f THEN FALSE ELSE @,
               !.is_running = IF f THEN FALSE ELSE @]

\* position_and_min_setting_toggle() moving the arm only when it selects
position_and_min_setting_toggle_onselect(s) ==
  LET f == ~s.min_position_being_updated
  IN [s EXCEPT !.min_position_being_updated = f,
               !.position_being_updated = f,
               !.angle = IF f THEN Deg(s.min_angle) ELSE @,
               !.max_position_being_updated = IF f THEN FALSE ELSE @,
               !.speed_being_updated = IF f THEN FALSE ELSE @]

position_and_min_setting_toggle(s) ==
  LET f == ~s.min_position_being_updated
  IN [s EXCEPT !.min_position_being_updated = f,
               !.position_being_updated = f,
               !.angle = Deg(s.min_angle),
               !.max_position_being_updated = IF f THEN FALSE ELSE @,
               !.speed_being_updated = IF f THEN FALSE ELSE @]

position_and_max_setting_toggle(s) ==
  LET f == ~s.max_position_being_updated
  IN [s EXCEPT !.max_position_being_updated = f,
               !.position_being_updated = f,
               !.angle = Deg(s.max_angle),
               !.min_position_being_updated = IF f THEN FALSE ELSE @,
               !.speed_being_updated = IF f THEN FALSE ELSE @]

\* speed_setting_toggle() leaving the position selected
speed_setting_toggle_keeps_position(s) ==
  LET f == ~s.speed_being_updated
  IN [s EXCEPT !.speed_being_updated = f,
               !.min_position_being_updated = IF f THEN FALSE ELSE @,
               !.max_position_being_updated = IF f THEN FALSE ELSE @]

speed_setting_toggle(s) ==
  LET f == ~s.speed_being_updated
  IN [s EXCEPT !.speed_being_updated = f,
               !.min_position_being_updated = IF f THEN FALSE ELSE @,
               !.max_position_being_updated = IF f THEN FALSE ELSE @,
               !.position_being_updated = IF f THEN FALSE ELSE @]

toggle_run(s) ==
  [s EXCEPT !.is_running = ~s.is_running,
            !.min_position_being_updated = FALSE,
            !.max_position_being_updated = FALSE,
            !.position_being_updated = FALSE,
            !.speed_being_updated = FALSE]

\* increment_value() without the min_angle > max_angle correction
increment_value_nodrag(s) ==
  LET s1 == IF s.min_position_being_updated
            THEN [s EXCEPT !.min_angle = IF @ + 2 > 180 THEN 180 ELSE @ + 2]
            ELSE s
      s2 == IF s1.max_position_being_updated
            THEN [s1 EXCEPT !.max_angle = IF @ + 2 > 180 THEN 180 ELSE @ + 2]
            ELSE s1
      s4 == IF s2.speed_being_updated
            THEN [s2 EXCEPT !.speed = IF @ + 2 > 150 THEN 150 ELSE @ + 2]
            ELSE s2
  IN IF s4.position_being_updated
     THEN [s4 EXCEPT !.angle = IF @ + Deg(2) > Deg(180) THEN Deg(180) ELSE @ + Deg(2)]
     ELSE s4

\* increment_value() without the upper limit on the position
increment_value_noclamp(s) ==
  LET s1 == IF s.min_position_being_updated
            THEN [s EXCEPT !.min_angle = IF @ + 2 > 180 THEN 180 ELSE @ + 2]
            ELSE s
      s2 == IF s1.max_position_being_updated
            THEN [s1 EXCEPT !.max_angle = IF @ + 2 > 180 THEN 180 ELSE @ + 2]
            ELSE s1
      s3 == IF s2.min_angle > s2.max_angle
            THEN [s2 EXCEPT !.max_angle = s2.min_angle]
            ELSE s2
      s4 == IF s3.speed_being_updated
            THEN [s3 EXCEPT !.speed = IF @ + 2 > 150 THEN 150 ELSE @ + 2]
            ELSE s3
  IN IF s4.position_being_updated
     THEN [s4 EXCEPT !.angle = @ + Deg(2)]
     ELSE s4

\* increment_value() stepping the speed up by 1, as decrement_value() steps it down
increment_value_step1(s) ==
  LET s1 == IF s.min_position_being_updated
            THEN [s EXCEPT !.min_angle = IF @ + 2 > 180 THEN 180 ELSE @ + 2]
            ELSE s
      s2 == IF s1.max_position_being_updated
            THEN [s1 EXCEPT !.max_angle = IF @ + 2 > 180 THEN 180 ELSE @ + 2]
            ELSE s1
      s3 == IF s2.min_angle > s2.max_angle
            THEN [s2 EXCEPT !.max_angle = s2.min_angle]
            ELSE s2
      s4 == IF s3.speed_being_updated
            THEN [s3 EXCEPT !.speed = IF @ + 1 > 150 THEN 150 ELSE @ + 1]
            ELSE s3
  IN IF s4.position_being_updated
     THEN [s4 EXCEPT !.angle = IF @ + Deg(2) > Deg(180) THEN Deg(180) ELSE @ + Deg(2)]
     ELSE s4

\* the statements of increment_value(), in source order
increment_value(s) ==
  LET s1 == IF s.min_position_being_updated
            THEN [s EXCEPT !.min_angle = IF @ + 2 > 180 THEN 180 ELSE @ + 2]
            ELSE s
      s2 == IF s1.max_position_being_updated
            THEN [s1 EXCEPT !.max_angle = IF @ + 2 > 180 THEN 180 ELSE @ + 2]
            ELSE s1
      s3 == IF s2.min_angle > s2.max_angle
            THEN [s2 EXCEPT !.max_angle = s2.min_angle]
            ELSE s2
      s4 == IF s3.speed_being_updated
            THEN [s3 EXCEPT !.speed = IF @ + 2 > 150 THEN 150 ELSE @ + 2]
            ELSE s3
  IN IF s4.position_being_updated
     THEN [s4 EXCEPT !.angle = IF @ + Deg(2) > Deg(180) THEN Deg(180) ELSE @ + Deg(2)]
     ELSE s4

\* decrement_value() stepping the speed down by 2, as increment_value() steps it up
decrement_value_symmetric(s) ==
  LET s1 == IF s.min_position_being_updated
            THEN [s EXCEPT !.min_angle = IF @ - 2 < 0 THEN 0 ELSE @ - 2]
            ELSE s
      s2 == IF s1.max_position_being_updated
            THEN [s1 EXCEPT !.max_angle = IF @ - 2 < 0 THEN 0 ELSE @ - 2]
            ELSE s1
      s3 == IF s2.max_angle < s2.min_angle
            THEN [s2 EXCEPT !.min_angle = s2.max_angle]
            ELSE s2
      s4 == IF s3.speed_being_updated
            THEN [s3 EXCEPT !.speed = IF @ - 2 < 1 THEN 1 ELSE @ - 2]
            ELSE s3
  IN IF s4.position_being_updated
     THEN [s4 EXCEPT !.angle = IF @ - Deg(2) < 0 THEN 0 ELSE @ - Deg(2)]
     ELSE s4

\* decrement_value() lowering the speed whether or not it is selected
decrement_value_unguarded(s) ==
  LET s1 == IF s.min_position_being_updated
            THEN [s EXCEPT !.min_angle = IF @ - 2 < 0 THEN 0 ELSE @ - 2]
            ELSE s
      s2 == IF s1.max_position_being_updated
            THEN [s1 EXCEPT !.max_angle = IF @ - 2 < 0 THEN 0 ELSE @ - 2]
            ELSE s1
      s3 == IF s2.max_angle < s2.min_angle
            THEN [s2 EXCEPT !.min_angle = s2.max_angle]
            ELSE s2
      s4 == [s3 EXCEPT !.speed = IF @ - 1 < 1 THEN 1 ELSE @ - 1]
  IN IF s4.position_being_updated
     THEN [s4 EXCEPT !.angle = IF @ - Deg(2) < 0 THEN 0 ELSE @ - Deg(2)]
     ELSE s4

decrement_value(s) ==
  LET s1 == IF s.min_position_being_updated
            THEN [s EXCEPT !.min_angle = IF @ - 2 < 0 THEN 0 ELSE @ - 2]
            ELSE s
      s2 == IF s1.max_position_being_updated
            THEN [s1 EXCEPT !.max_angle = IF @ - 2 < 0 THEN 0 ELSE @ - 2]
            ELSE s1
      s3 == IF s2.max_angle < s2.min_angle
            THEN [s2 EXCEPT !.min_angle = s2.max_angle]
            ELSE s2
      s4 == IF s3.speed_being_updated
            THEN [s3 EXCEPT !.speed = IF @ - 1 < 1 THEN 1 ELSE @ - 1]
            ELSE s3
  IN IF s4.position_being_updated
     THEN [s4 EXCEPT !.angle = IF @ - Deg(2) < 0 THEN 0 ELSE @ - Deg(2)]
     ELSE s4

\* the sweep step reversing at the bound without clamping to it
sweep_noclamp(s, angle_delta) ==
  IF s.reversing
  THEN IF s.angle - angle_delta < Deg(s.min_angle)
       THEN [s EXCEPT !.angle = s.angle - angle_delta, !.reversing = FALSE]
       ELSE [s EXCEPT !.angle = s.angle - angle_delta]
  ELSE IF s.angle + angle_delta > Deg(s.max_angle)
       THEN [s EXCEPT !.angle = s.angle + angle_delta, !.reversing = TRUE]
       ELSE [s EXCEPT !.angle = s.angle + angle_delta]

\* the sweep step stopping at the upper bound without reversing
sweep_stick(s, angle_delta) ==
  IF s.reversing
  THEN IF s.angle - angle_delta < Deg(s.min_angle)
       THEN [s EXCEPT !.angle = Deg(s.min_angle), !.reversing = FALSE]
       ELSE [s EXCEPT !.angle = s.angle - angle_delta]
  ELSE IF s.angle + angle_delta > Deg(s.max_angle)
       THEN [s EXCEPT !.angle = Deg(s.max_angle)]
       ELSE [s EXCEPT !.angle = s.angle + angle_delta]

\* the sweep step shared by both variants' update(): move by angle_delta in
\* the current direction, clamp at the bound ahead and reverse there
sweep(s, angle_delta) ==
  IF s.reversing
  THEN IF s.angle - angle_delta < Deg(s.min_angle)
       THEN [s EXCEPT !.angle = Deg(s.min_angle), !.reversing = FALSE]
       ELSE [s EXCEPT !.angle = s.angle - angle_delta]
  ELSE IF s.angle + angle_delta > Deg(s.max_angle)
       THEN [s EXCEPT !.angle = Deg(s.max_angle), !.reversing = TRUE]
       ELSE [s EXCEPT !.angle = s.angle + angle_delta]

\* update() sweeping whether or not the servo is running
update_always(s, t) ==
  LET time_delta == ticks_diff(t, s.time_ref)
      angle_delta == s.speed * time_delta
      s1 == [s EXCEPT !.time_ref = t]
  IN sweep(s1, angle_delta)

\* update() at clock reading t
update(s, t) ==
  LET time_delta == ticks_diff(t, s.time_ref)
      angle_delta == s.speed * time_delta
      s1 == [s EXCEPT !.time_ref = t]
  IN IF s1.is_running THEN sweep(s1, angle_delta) ELSE s1

-----------------------------------------------------------------------------
(* ServoController, src/stethoscope-simple.py *)

ServoController_simple(angle, speed, t) ==
  [ angle |-> Deg(angle), speed |-> speed,
    min_angle |-> 0, max_angle |-> 180,
    reversing |-> FALSE,
    min_position_being_updated |-> FALSE,
    max_position_being_updated |-> FALSE,
    position_being_updated |-> FALSE,
    speed_being_updated |-> FALSE,
    time_ref |-> t ]

min_position_setting_toggle_simple(s) ==
  LET f == ~s.min_position_being_updated
  IN [s EXCEPT !.min_position_being_updated = f,
               !.max_position_being_updated = IF f THEN FALSE ELSE @]

max_position_setting_toggle_simple(s) ==
  LET f == ~s.max_position_being_updated
  IN [s EXCEPT !.max_position_being_updated = f,
               !.min_position_being_updated = IF f THEN FALSE ELSE @]

increment_value_simple(s) ==
  LET s1 == IF s.min_position_being_updated
            THEN [s EXCEPT !.min_angle = @ + 1] ELSE s
      s2 == IF s1.min_angle > 180 THEN [s1 EXCEPT !.min_angle = 180] ELSE s1
      s3 == IF s2.max_position_being_updated
            THEN [s2 EXCEPT !.max_angle = @ + 1] ELSE s2
      s4 == IF s3.max_angle > 180 THEN [s3 EXCEPT !.max_angle = 180] ELSE s3
  IN IF s4.min_angle > s4.max_angle
     THEN [s4 EXCEPT !.max_angle = s4.min_angle]
     ELSE s4

decrement_value_simple(s) ==
  LET s1 == IF s.min_position_being_updated
            THEN [s EXCEPT !.min_angle = @ - 1] ELSE s
      s2 == IF s1.min_angle < 0 THEN [s1 EXCEPT !.min_angle = 0] ELSE s1
      s3 == IF s2.max_position_being_updated
            THEN [s2 EXCEPT !.max_angle = @ - 1] ELSE s2
      s4 == IF s3.max_angle < 0 THEN [s3 EXCEPT !.max_angle = 0] ELSE s3
  IN IF s4.max_angle < s4.min_angle
     THEN [s4 EXCEPT !.min_angle = s4.max_angle]
     ELSE s4

update_simple(s, t) ==
  LET time_delta == ticks_diff(t, s.time_ref)
      angle_delta == s.speed * time_delta
  IN sweep([s EXCEPT !.time_ref = t], angle_delta)

-----------------------------------------------------------------------------
(* Input dispatch and application mode, src/steth-single.py *)

\* the display buttons, in the order the mapping dictionaries list them
MappingOrder == <<"A", "X", "B", "Y">>

\* button_mapping_main, button_mapping_servoD5, button_mapping_servoD7
button_mapping(m) ==
  CASE m = 0 ->
         [A |-> [object |-> 1, method |-> "min_position_setting_toggle"],
          X |-> [object |-> 1, method |-> "max_position_setting_toggle"],
          B |-> [object |-> 2, method |-> "min_position_setting_toggle"],
          Y |-> [object |-> 2, method |-> "max_position_setting_toggle"]]
    [] m = 1 ->
         [A |-> [object |-> 1, method |-> "position_and_min_setting_toggle"],
          X |-> [object |-> 1, method |-> "position_and_max_setting_toggle"],
          B |-> [object |-> 1, method |-> "speed_setting_toggle"],
          Y |-> [object |-> 1, method |-> "toggle_run"]]
    [] m = 2 ->
         [A |-> [object |-> 2, method |-> "speed_setting_toggle"],
          X |-> [object |-> 2, method |-> "toggle_run"],
          B |-> [object |-> 2, method |-> "position_and_min_setting_toggle"],
          Y |-> [object |-> 2, method |-> "position_and_max_setting_toggle"]]

\* rotary_mapping_main: the objects the encoder drives, in dictionary order
rotary_mapping == <<1, 2>>

\* getattr(object, method)() for the ServoController methods the mappings name
getattr_call(method, s) ==
  CASE method = "min_position_setting_toggle" -> min_position_setting_toggle(s)
    [] method = "max_position_setting_toggle" -> max_position_setting_toggle(s)
    [] method = "position_and_min_setting_toggle" -> position_and_min_setting_toggle(s)
    [] method = "position_and_max_setting_toggle" -> position_and_max_setting_toggle(s)
    [] method = "speed_setting_toggle" -> speed_setting_toggle(s)
    [] method = "toggle_run" -> toggle_run(s)
    [] method = "increment_value" -> increment_value(s)
    [] method = "decrement_value" -> decrement_value(s)

\* the loop of check() with the timer tested once, before the loop, instead
\* of per button
RECURSIVE check_from_all(_, _, _, _, _)
check_from_all(k, m, st, t, down) ==
  IF k > Len(MappingOrder) THEN st
  ELSE LET b == MappingOrder[k]
           e == button_mapping(m)[b]
       IN IF b \in down
             /\ (st.log # <<>>
                   \/ ticks_diff(t, st.ctl.time_last_checked) > ButtonDebounce)
          THEN check_from_all(k + 1, m,
                 [ctl |-> [st.ctl EXCEPT !.time_last_checked = t],
                  servo |-> [st.servo EXCEPT ![e.object] = getattr_call(e.method, @)],
                  log |-> Append(st.log, [button |-> b, object |-> e.object,
                                          method |-> e.method])],
                 t, down)
          ELSE check_from_all(k + 1, m, st, t, down)

\* ButtonController.check(): the loop over the mapping from its k-th button on.
\* st = [ctl, servo, log]: the controller, the objects and the calls made so far.
RECURSIVE check_from(_, _, _, _, _)
check_from(k, m, st, t, down) ==
  IF k > Len(MappingOrder) THEN st
  ELSE LET b == MappingOrder[k]
           e == button_mapping(m)[b]
       IN IF b \in down
             /\ ticks_diff(t, st.ctl.time_last_checked) > ButtonDebounce
          THEN check_from(k + 1, m,
                 [ctl |-> [st.ctl EXCEPT !.time_last_checked = t],
                  servo |-> [st.servo EXCEPT ![e.object] = getattr_call(e.method, @)],
                  log |-> Append(st.log, [button |-> b, object |-> e.object,
                                          method |-> e.method])],
                 t, down)
          ELSE check_from(k + 1, m, st, t, down)

\* check() without the elapsed-time test
ButtonController_check_nodebounce(m, ctl, sv, t, down) ==
  check_from(1, m, [ctl |-> [ctl EXCEPT !.time_last_checked = t - ButtonDebounce - 1],
                    servo |-> sv, log |-> <<>>], t, down)

\* ButtonController.check() dispatching only the first time it finds a
\* button pressed: a held button is not dispatched again
ButtonController_check_once(m, ctl, sv, t, down) ==
  IF ctl.time_last_checked = 0
  THEN check_from(1, m, [ctl |-> ctl, servo |-> sv, log |-> <<>>], t, down)
  ELSE [ctl |-> ctl, servo |-> sv, log |-> <<>>]

ButtonController_check(m, ctl, sv, t, down) ==
  check_from(1, m, [ctl |-> ctl, servo |-> sv, log |-> <<>>], t, down)

\* _handle_state_change() stopping only the object it is about to show
handle_state_change_nostop(st, sv) ==
  CASE st = 0 -> [i \in DOMAIN sv |-> run(display_small(sv[i]))]
    [] st = 1 -> [i \in DOMAIN sv |-> IF i = 1 THEN display_full(stop(sv[i]))
                                      ELSE sv[i]]
    [] st = 2 -> [i \in DOMAIN sv |-> IF i = 2 THEN display_full(stop(sv[i]))
                                      ELSE sv[i]]

\* _handle_state_change() also deselecting every field of every object
handle_state_change_deselect(st, sv) ==
  LET off == [i \in DOMAIN sv |->
                [sv[i] EXCEPT !.min_position_being_updated = FALSE,
                              !.max_position_being_updated = FALSE,
                              !.position_being_updated = FALSE,
                              !.speed_being_updated = FALSE]]
  IN CASE st = 0 -> [i \in DOMAIN sv |-> run(display_small(off[i]))]
       [] st = 1 -> [i \in DOMAIN sv |-> IF i = 1 THEN display_full(stop(off[i]))
                                         ELSE stop(off[i])]
       [] st = 2 -> [i \in DOMAIN sv |-> IF i = 2 THEN display_full(stop(off[i]))
                                         ELSE stop(off[i])]

\* ApplicationController._handle_state_change()
handle_state_change(st, sv) ==
  CASE st = 0 -> [i \in DOMAIN sv |-> run(display_small(sv[i]))]
    [] st = 1 -> [i \in DOMAIN sv |-> IF i = 1 THEN display_full(stop(sv[i]))
                                      ELSE stop(sv[i])]
    [] st = 2 -> [i \in DOMAIN sv |-> IF i = 2 THEN display_full(stop(sv[i]))
                                      ELSE stop(sv[i])]

\* increment_state() without the wrap to state 0
increment_state_stuck(st, sv) ==
  LET n == IF st + 1 > NumStates - 1 THEN st ELSE st + 1
  IN [application_state |-> n, servo |-> handle_state_change(n, sv)]

\* ApplicationController.increment_state()
increment_state(st, sv) ==
  LET n == IF st + 1 > NumStates - 1 THEN 0 ELSE st + 1
  IN [application_state |-> n, servo |-> handle_state_change(n, sv)]

\* PinButtonController.check() of app_control_button_controller: one button,
\* bound to app.increment_state
PinButtonController_check(ctl, st, sv, t, down) ==
  IF down /\ ticks_diff(t, ctl.time_last_checked) > ButtonDebounce
  THEN LET r == increment_state(st, sv)
       IN [ctl |-> [ctl EXCEPT !.time_last_checked = t],
           application_state |-> r.application_state, servo |-> r.servo,
           log |-> <<[button |-> "mode", object |-> 0, method |-> "increment_state"]>>]
  ELSE [ctl |-> ctl, application_state |-> st, servo |-> sv, log |-> <<>>]

\* the calls one branch of RotaryController.check() makes: `method` on every
\* object of the mapping
RECURSIVE rotary_calls(_, _, _)
rotary_calls(k, method, st) ==
  IF k > Len(rotary_mapping) THEN st
  ELSE LET o == rotary_mapping[k]
       IN rotary_calls(k + 1, method,
            [servo |-> [st.servo EXCEPT ![o] = getattr_call(method, @)],
             log |-> Append(st.log, [button |-> "rotary", object |-> o,
                                     method |-> method])])

RECURSIVE rotary_replay(_, _, _)
rotary_replay(n, method, st) ==
  IF n = 0 THEN st ELSE rotary_replay(n - 1, method, rotary_calls(1, method, st))

\* check() making one round of calls per encoder step since the last sample
RotaryController_check_replay(r, sv, t, value) ==
  IF ticks_diff(t, r.time_last_checked) > RotaryDebounce
  THEN LET r1 == [r EXCEPT !.time_last_checked = t, !.new_value = value,
                           !.old_value = value]
           out == IF value > r.old_value
                  THEN rotary_replay(value - r.old_value, "increment_value",
                                     [servo |-> sv, log |-> <<>>])
                  ELSE rotary_replay(r.old_value - value, "decrement_value",
                                     [servo |-> sv, log |-> <<>>])
       IN [rotary |-> r1, servo |-> out.servo, log |-> out.log]
  ELSE [rotary |-> r, servo |-> sv, log |-> <<>>]

\* check() taking the direction from the shorter way round the counter's range
RotaryController_check_unwrapped(r, sv, t, value) ==
  IF ticks_diff(t, r.time_last_checked) > RotaryDebounce
  THEN LET r1 == [r EXCEPT !.time_last_checked = t, !.new_value = value,
                           !.old_value = value]
           n == RotaryMax - RotaryMin + 1
           d == ((value - r.old_value + RotaryMax) % n) - RotaryMax
           out == IF d > 0
                  THEN rotary_calls(1, "increment_value", [servo |-> sv, log |-> <<>>])
                  ELSE IF d < 0
                  THEN rotary_calls(1, "decrement_value", [servo |-> sv, log |-> <<>>])
                  ELSE [servo |-> sv, log |-> <<>>]
       IN [rotary |-> r1, servo |-> out.servo, log |-> out.log]
  ELSE [rotary |-> r, servo |-> sv, log |-> <<>>]

\* RotaryController.check() when the encoder counter reads `value`
RotaryController_check(r, sv, t, value) ==
  IF ticks_diff(t, r.time_last_checked) > RotaryDebounce
  THEN LET r1 == [r EXCEPT !.time_last_checked = t, !.new_value = value]
           a == IF r1.new_value > r1.old_value
                THEN [rot |-> [r1 EXCEPT !.old_value = r1.new_value],
                      out |-> rotary_calls(1, "increment_value",
                                           [servo |-> sv, log |-> <<>>])]
                ELSE [rot |-> r1, out |-> [servo |-> sv, log |-> <<>>]]
           b == IF a.rot.new_value < a.rot.old_value
                THEN [rot |-> [a.rot EXCEPT !.old_value = a.rot.new_value],
                      out |-> rotary_calls(1, "decrement_value", a.out)]
                ELSE a
       IN [rotary |-> b.rot, servo |-> b.out.servo, log |-> b.out.log]
  ELSE [rotary |-> r, servo |-> sv, log |-> <<>>]

\* the objects ApplicationController.update() updates and draws in state st
serviced(st) == CASE st = 0 -> {1, 2} [] st = 1 -> {1} [] st = 2 -> {2}

\* the calls update() makes on object i: update() then draw()
object_calls(i) == << [object |-> i, method |-> "update"],
                      [object |-> i, method |-> "draw"] >>

\* the calls ApplicationController.update() makes in state st, in order;
\* object 0 is the menu list, indexed by the menu polled
update_calls(st) ==
  << [object |-> 0, method |-> "check", menu |-> st] >> \o
  (CASE st = 0 -> object_calls(1) \o object_calls(2)
     [] st = 1 -> object_calls(1)
     [] st = 2 -> object_calls(2))

\* update() servicing every object in every state
ApplicationController_update_all(st, mn, sv, dr, t, down) ==
  LET c == ButtonController_check(st, mn[st], sv, t, down)
      sv2 == [i \in DOMAIN sv |-> update(c.servo[i], t)]
  IN [menu |-> [mn EXCEPT ![st] = c.ctl],
      servo |-> sv2,
      drawn |-> [i \in DOMAIN sv |-> draw(sv2[i])],
      log |-> c.log,
      calls |-> update_calls(0)]

\* ApplicationController.update() with one timer for all the menus
ApplicationController_update_shared(st, mn, sv, dr, t, down) ==
  LET c == ButtonController_check(st, mn[st], sv, t, down)
      sv2 == [i \in DOMAIN sv |-> IF i \in serviced(st)
                                  THEN update(c.servo[i], t) ELSE c.servo[i]]
  IN [menu |-> IF c.log # <<>> THEN [m \in DOMAIN mn |-> c.ctl]
               ELSE mn,
      servo |-> sv2,
      drawn |-> [i \in DOMAIN sv |-> IF i \in serviced(st)
                                     THEN draw(sv2[i]) ELSE dr[i]],
      log |-> c.log,
      calls |-> update_calls(st)]

\* ApplicationController.update(): poll the state's menu, then update and
\* draw the state's objects
ApplicationController_update(st, mn, sv, dr, t, down) ==
  LET c == ButtonController_check(st, mn[st], sv, t, down)
      sv2 == [i \in DOMAIN sv |-> IF i \in serviced(st)
                                  THEN update(c.servo[i], t) ELSE c.servo[i]]
  IN [menu |-> [mn EXCEPT ![st] = c.ctl],
      servo |-> sv2,
      drawn |-> [i \in DOMAIN sv |-> IF i \in serviced(st)
                                     THEN draw(sv2[i]) ELSE dr[i]],
      log |-> c.log,
      calls |-> update_calls(st)]

\* the encoder driver's counter after k more steps (RANGE_WRAP)
wrap(v) ==
  RotaryMin + ((v - RotaryMin) % (RotaryMax - RotaryMin + 1))

-----------------------------------------------------------------------------
(* History kept for stating properties: the state before the last operation *)

Snapshot ==
  [ servo |-> servo, application_state |-> application_state, menu |-> menu,
    control |-> control, rotary |-> rotary, now |-> now, fired |-> fired,
    drawn |-> drawn ]

\* `prior` when the call preceding the last one was not increment_value()
NoPrior == [op |-> [name |-> "none", obj |-> 0], servo |-> << >>]

\* `rescaled` when rescale() is not under study
NoRescale == [x |-> 0, in_min |-> 0, in_max |-> 0, out_min |-> 0, out_max |-> 0,
              result |-> 0, done |-> FALSE]

\* fired[c] = [t, button, alone]: the time and the button of controller c's
\* latest dispatch, and whether c has seen no other button pressed at that
\* poll or since.  NoFire: c has dispatched nothing yet.
NoFire == [t |-> -1, button |-> "none", alone |-> FALSE]

NoInputs == [mode_events |-> 0, touched |-> FALSE]

-----------------------------------------------------------------------------
(* Class-level driver: one ServoController object of either variant, its   *)
(* methods called in any order.  The object starts in a state the program  *)
(* can bring it to: bounds at the constructor's values or moved by the     *)
(* encoder to the ends of the range, speed at a constructor value or       *)
(* edited to the ends of its range, angle at a bound, at 90 or one degree   *)
(* short of the top of the range, no field selected or (steth-single.py)   *)
(* the position left selected after a bound preview was replaced.          *)

DriverBounds == {<<90, 90>>, <<0, 180>>, <<0, 0>>, <<180, 180>>}

DriverSpeeds(v) == IF v = "single" THEN {1, 20, 150} ELSE {20, 60}

\* elapsed milliseconds between two update() calls
DriverElapsed == {0, 100, 4500}

\* angles the object may start at, for bounds b
DriverAngles(b) == {b[1], b[2], 90, 179}

\* whether the object may start with its position selected
DriverSelected(v) == IF v = "single" THEN {FALSE, TRUE} ELSE {FALSE}

DriverObject(v, b, a, sp, sel) ==
  IF v = "single"
  THEN [ServoController(90, sp, 0)
          EXCEPT !.min_angle = b[1], !.max_angle = b[2], !.angle = Deg(a),
                 !.position_being_updated = sel]
  ELSE [ServoController_simple(90, sp, 0)
          EXCEPT !.min_angle = b[1], !.max_angle = b[2], !.angle = Deg(a)]

InitServo ==
  /\ variant \in {"single", "simple"}
  /\ \E b \in DriverBounds : \E a \in DriverAngles(b) :
       \E sp \in DriverSpeeds(variant) : \E sel \in DriverSelected(variant) :
         servo = [i \in {1} |-> DriverObject(variant, b, a, sp, sel)]
  /\ application_state = 0
  /\ menu = [m \in 0..2 |-> [time_last_checked |-> 0]]
  /\ control = [time_last_checked |-> 0]
  /\ rotary = [time_last_checked |-> 0, old_value |-> 0, new_value |-> 0]
  /\ now = 0
  /\ pressed = {}
  /\ pin_pressed = FALSE
  /\ count = 0
  /\ pc = "driver"
  /\ loops = 0
  /\ calls = 0
  /\ op = [name |-> "init", obj |-> 0]
  /\ dispatched = <<>>
  /\ fired = [m \in 0..3 |-> NoFire]
  /\ inputs = NoInputs
  /\ drawn = [i \in DOMAIN servo |-> draw(servo[i])]
  /\ ticked = <<>>
  /\ prior = NoPrior
  /\ rescaled = NoRescale
  /\ pre = Snapshot

\* the driver calls method `name` on object i at clock reading t, leaving it as s2
Call(i, name, s2, t) ==
  /\ pc = "driver"
  /\ calls < MaxCalls
  /\ calls' = calls + 1
  /\ op' = [name |-> name, obj |-> i]
  /\ pre' = Snapshot
  /\ servo' = [servo EXCEPT ![i] = s2]
  /\ now' = t
  /\ dispatched' = <<>>
  /\ prior' = IF op.name = "increment_value"
               THEN [op |-> op, servo |-> pre.servo]
               ELSE NoPrior
  /\ UNCHANGED <<variant, application_state, menu, control, rotary, pressed,
                 pin_pressed, count, pc, loops, fired, inputs, drawn, ticked,
                 rescaled>>

CallMinToggle ==
  \E i \in DOMAIN servo :
    Call(i, "min_position_setting_toggle",
         IF variant = "single" THEN min_position_setting_toggle(servo[i])
         ELSE min_position_setting_toggle_simple(servo[i]), now)

CallMaxToggle ==
  \E i \in DOMAIN servo :
    Call(i, "max_position_setting_toggle",
         IF variant = "single" THEN max_position_setting_toggle(servo[i])
         ELSE max_position_setting_toggle_simple(servo[i]), now)

CallPositionAndMinToggle ==
  \E i \in DOMAIN servo :
    /\ variant = "single"
    /\ Call(i, "position_and_min_setting_toggle",
            position_and_min_setting_toggle(servo[i]), now)

CallPositionAndMaxToggle ==
  \E i \in DOMAIN servo :
    /\ variant = "single"
    /\ Call(i, "position_and_max_setting_toggle",
            position_and_max_setting_toggle(servo[i]), now)

CallSpeedToggle ==
  \E i \in DOMAIN servo :
    /\ variant = "single"
    /\ Call(i, "speed_setting_toggle", speed_setting_toggle(servo[i]), now)

CallToggleRun ==
  \E i \in DOMAIN servo :
    /\ variant = "single"
    /\ Call(i, "toggle_run", toggle_run(servo[i]), now)

CallRun ==
  \E i \in DOMAIN servo :
    /\ variant = "single"
    /\ Call(i, "run", run(servo[i]), now)

CallStop ==
  \E i \in DOMAIN servo :
    /\ variant = "single"
    /\ Call(i, "stop", stop(servo[i]), now)

CallDisplaySmall ==
  \E i \in DOMAIN servo :
    /\ variant = "single"
    /\ Call(i, "display_small", display_small(servo[i]), now)

CallDisplayFull ==
  \E i \in DOMAIN servo :
    /\ variant = "single"
    /\ Call(i, "display_full", display_full(servo[i]), now)

CallIncrement ==
  \E i \in DOMAIN servo :
    Call(i, "increment_value",
         IF variant = "single" THEN increment_value(servo[i])
         ELSE increment_value_simple(servo[i]), now)

CallDecrement ==
  \E i \in DOMAIN servo :
    Call(i, "decrement_value",
         IF variant = "single" THEN decrement_value(servo[i])
         ELSE decrement_value_simple(servo[i]), now)

CallUpdate ==
  \E i \in DOMAIN servo : \E dt \in DriverElapsed :
    Call(i, "update",
         IF variant = "single" THEN update(servo[i], now + dt)
         ELSE update_simple(servo[i], now + dt), now + dt)

NextServo ==
  \/ CallMinToggle
  \/ CallMaxToggle
  \/ CallPositionAndMinToggle
  \/ CallPositionAndMaxToggle
  \/ CallSpeedToggle
  \/ CallToggleRun
  \/ CallRun
  \/ CallStop
  \/ CallDisplaySmall
  \/ CallDisplayFull
  \/ CallIncrement
  \/ CallDecrement
  \/ CallUpdate

SpecServo == InitServo /\ [][NextServo]_vars

-----------------------------------------------------------------------------
(* The program src/steth-single.py: construction, then the main loop       *)
(*   rotary.check(); app_control_button_controller.check(); app.update()   *)
(* The clock and the input levels are sampled once per loop iteration.     *)

\* milliseconds one loop iteration may take: within every debounce interval,
\* or beyond them all
LoopElapsed == {20, 501}

\* encoder steps that may accumulate during one loop iteration: one step
\* down, or two steps up between two samples
LoopTurns == {-1, 2}

Buttons == {"A", "X", "B", "Y"}

Init ==
  /\ variant = "single"
  /\ servo = [i \in {1, 2} |-> IF i = 1 THEN ServoController(90, 20, 0)
                               ELSE ServoController(90, 60, 0)]
  /\ application_state = 0
  /\ menu = [m \in 0..2 |-> [time_last_checked |-> 0]]
  /\ control = [time_last_checked |-> 0]
  /\ rotary = [time_last_checked |-> 0, old_value |-> 0, new_value |-> 0]
  /\ now = 0
  /\ pressed = {}
  /\ pin_pressed = FALSE
  /\ count = 0
  /\ pc = "loop"
  /\ loops = 0
  /\ calls = 0
  /\ op = [name |-> "init", obj |-> 0]
  /\ dispatched = <<>>
  /\ fired = [m \in 0..3 |-> NoFire]
  /\ inputs = NoInputs
  /\ drawn = [i \in DOMAIN servo |-> draw(servo[i])]
  /\ ticked = <<>>
  /\ prior = NoPrior
  /\ rescaled = NoRescale
  /\ pre = Snapshot

\* `fired` after controller c polled at time t with buttons `down` pressed
\* and made the calls `log`
Polled(c, t, down, log) ==
  IF log # <<>>
  THEN [fired EXCEPT ![c] = [t |-> t, button |-> log[1].button,
                             alone |-> down = {log[1].button}]]
  ELSE [fired EXCEPT ![c].alone = @ /\ down \subseteq {fired[c].button}]

\* the world between two loop iterations: time passes and at most one input
\* changes (a display button or the mode button goes down or up, or the
\* encoder is turned)
LoopTop(dt, down, pin, value) ==
  /\ pc = "loop"
  /\ inputs' = [inputs EXCEPT !.touched = @ \/ down # pressed \/ value # count]
  /\ loops < MaxLoops
  /\ loops' = loops + 1
  /\ now' = now + dt
  /\ pressed' = down
  /\ pin_pressed' = pin
  /\ count' = value
  /\ pc' = "rotary"
  /\ op' = [name |-> "loop", obj |-> 0]
  /\ pre' = Snapshot
  /\ dispatched' = <<>>
  /\ ticked' = <<>>
  /\ UNCHANGED <<variant, servo, application_state, menu, control, rotary, calls,
                 fired, drawn, prior, rescaled>>

Elapse == \E dt \in LoopElapsed : LoopTop(dt, pressed, pin_pressed, count)

DisplayButton ==
  \E dt \in LoopElapsed : \E b \in Buttons :
    LoopTop(dt, IF b \in pressed THEN pressed \ {b} ELSE pressed \cup {b},
            pin_pressed, count)

ModeButton == \E dt \in LoopElapsed : LoopTop(dt, pressed, ~pin_pressed, count)

Turn == \E dt \in LoopElapsed : \E k \in LoopTurns :
          LoopTop(dt, pressed, pin_pressed, wrap(count + k))

\* rotary.check()
RotaryCheck ==
  /\ pc = "rotary"
  /\ LET r == RotaryController_check(rotary, servo, now, count)
     IN /\ rotary' = r.rotary
        /\ servo' = r.servo
        /\ dispatched' = r.log
  /\ pc' = "control"
  /\ op' = [name |-> "rotary.check", obj |-> 0]
  /\ pre' = Snapshot
  /\ ticked' = <<>>
  /\ UNCHANGED <<variant, application_state, menu, control, now, pressed,
                 pin_pressed, count, loops, calls, fired, inputs, drawn, prior,
                 rescaled>>

\* app_control_button_controller.check()
ControlCheck ==
  /\ pc = "control"
  /\ LET r == PinButtonController_check(control, application_state, servo, now,
                                        pin_pressed)
     IN /\ control' = r.ctl
        /\ application_state' = r.application_state
        /\ servo' = r.servo
        /\ dispatched' = r.log
        /\ fired' = Polled(3, now, IF pin_pressed THEN {"mode"} ELSE {}, r.log)
        /\ inputs' = [inputs EXCEPT !.mode_events = @ + Len(r.log)]
  /\ pc' = "app"
  /\ op' = [name |-> "control.check", obj |-> 0]
  /\ pre' = Snapshot
  /\ ticked' = <<>>
  /\ UNCHANGED <<variant, menu, rotary, now, pressed, pin_pressed, count, loops,
                 calls, drawn, prior, rescaled>>

\* app.update()
AppUpdate ==
  /\ pc = "app"
  /\ LET r == ApplicationController_update(application_state, menu, servo, drawn,
                                           now, pressed)
     IN /\ menu' = r.menu
        /\ servo' = r.servo
        /\ drawn' = r.drawn
        /\ ticked' = r.calls
        /\ dispatched' = r.log
        /\ fired' = Polled(application_state, now, pressed, r.log)
  /\ pc' = "loop"
  /\ op' = [name |-> "app.update", obj |-> 0]
  /\ pre' = Snapshot
  /\ UNCHANGED <<variant, application_state, control, rotary, now, pressed,
                 pin_pressed, count, loops, calls, inputs, prior, rescaled>>

Next ==
  \/ Elapse
  \/ DisplayButton
  \/ ModeButton
  \/ Turn
  \/ RotaryCheck
  \/ ControlCheck
  \/ AppUpdate

Spec == Init /\ [][Next]_vars

-----------------------------------------------------------------------------
(* Properties of one ServoController, checked under SpecServo *)

BoundsOrdered(s) ==
  0 <= s.min_angle /\ s.min_angle <= s.max_angle /\ s.max_angle <= 180

InBounds(s) == Deg(s.min_angle) <= s.angle /\ s.angle <= Deg(s.max_angle)

\* the simple variant has no run/stop state: its update() always sweeps
Running(s) == variant = "simple" \/ s.is_running

Did(name, i) == op.name = name /\ op.obj = i

\* C1: in both variants 0 <= min_angle <= max_angle <= 180 holds in every
\* reachable state of a servo; an increment_value that leaves min_angle above
\* the previous max_angle has raised max_angle to equal it, and a
\* decrement_value that leaves max_angle below the previous min_angle has
\* lowered min_angle to equal it.
C1_BoundsOrdered ==
  \A i \in DOMAIN servo :
    /\ BoundsOrdered(servo[i])
    /\ (Did("increment_value", i) /\ servo[i].min_angle > pre.servo[i].max_angle)
         => servo[i].max_angle = servo[i].min_angle
    /\ (Did("decrement_value", i) /\ servo[i].max_angle < pre.servo[i].min_angle)
         => servo[i].min_angle = servo[i].max_angle

\* an increment has pushed min_angle past the old max_angle and dragged it along
C1_Witness ==
  \E i \in DOMAIN servo :
    /\ Did("increment_value", i)
    /\ pre.servo[i].min_position_being_updated
    /\ servo[i].min_angle > pre.servo[i].max_angle
    /\ servo[i].max_angle = servo[i].min_angle

\* C2: an update() of a running servo with speed > 0 that starts with
\* min_angle <= angle <= max_angle ends with min_angle <= angle <= max_angle,
\* for any elapsed time >= 0, and if it flipped the direction the angle is the
\* bound it was moving toward: max_angle when now reversing, min_angle when
\* now going forward.  (update() changes neither bounds nor speed, so this
\* step property carries over every sequence of update() calls.)
C2_SweepWithinBounds ==
  \A i \in DOMAIN servo :
    (Did("update", i) /\ Running(pre.servo[i]) /\ pre.servo[i].speed > 0
       /\ InBounds(pre.servo[i]))
    => /\ InBounds(servo[i])
       /\ servo[i].min_angle = pre.servo[i].min_angle
       /\ servo[i].max_angle = pre.servo[i].max_angle
       /\ servo[i].speed = pre.servo[i].speed
       /\ (servo[i].reversing /= pre.servo[i].reversing)
            => servo[i].angle = IF servo[i].reversing
                                THEN Deg(servo[i].max_angle)
                                ELSE Deg(servo[i].min_angle)

\* an update() moved a running, in-bounds servo up to its max_angle and reversed it
C2_Witness ==
  \E i \in DOMAIN servo :
    /\ Did("update", i) /\ Running(pre.servo[i]) /\ InBounds(pre.servo[i])
    /\ pre.servo[i].angle < Deg(pre.servo[i].max_angle)
    /\ ~pre.servo[i].reversing /\ servo[i].reversing
    /\ servo[i].angle = Deg(servo[i].max_angle)

EditFlags(s) ==
  {f \in {"min_position_being_updated", "max_position_being_updated",
          "speed_being_updated", "position_being_updated"} : s[f]}

ExclusiveFlags(s) ==
  {f \in {"min_position_being_updated", "max_position_being_updated",
          "speed_being_updated"} : s[f]}

-----------------------------------------------------------------------------
(* Properties of the program src/steth-single.py, checked under Spec *)

ModeEvent ==
  op.name = "control.check"
  /\ dispatched = <<[button |-> "mode", object |-> 0, method |-> "increment_state"]>>

\* C4: application_state is always 0 (OVERVIEW), 1 (DETAIL_A) or 2
\* (DETAIL_B) and starts at 0; an increment_state() event moves it one step
\* along 0 -> 1 -> 2 -> 0, and no other operation changes it.
C4_ModeCycle ==
  /\ application_state \in {0, 1, 2}
  /\ op.name = "init" => application_state = 0
  /\ ModeEvent =>
       application_state = CASE pre.application_state = 0 -> 1
                             [] pre.application_state = 1 -> 2
                             [] pre.application_state = 2 -> 0
  /\ (op.name # "init" /\ ~ModeEvent) => application_state = pre.application_state

\* an increment_state() event took the machine from DETAIL_B back to OVERVIEW
C4_Witness ==
  ModeEvent /\ pre.application_state = 2 /\ application_state = 0

\* the servos as constructed at startup
ConstructedServos ==
  [i \in {1, 2} |-> IF i = 1 THEN ServoController(90, 20, 0)
                    ELSE ServoController(90, 60, 0)]

\* C5 as stated: right after the third of three increment_state() events
\* from the initial state, with no display button touched and the encoder
\* not turned, the machine is in OVERVIEW and each servo has the is_running
\* and display_mode values it was constructed with.
C5_CycleRestoresConfiguration ==
  (ModeEvent /\ inputs.mode_events = 3 /\ ~inputs.touched)
  => /\ application_state = 0
     /\ \A i \in DOMAIN servo :
          /\ servo[i].is_running = ConstructedServos[i].is_running
          /\ servo[i].display_mode = ConstructedServos[i].display_mode

\* C6 as stated: whenever application_state is OVERVIEW, the initial state
\* included, both servos are running and both show the minimal layout.
C6_OverviewRunsBoth ==
  application_state = 0
  => \A i \in DOMAIN servo : servo[i].is_running /\ servo[i].display_mode = 0

\* C7: in DETAIL_A servo B (object 2) is not running and in DETAIL_B servo A
\* (object 1) is not running, whatever buttons are pressed or encoder turns
\* are made in that mode.
C7_OtherServoHalted ==
  /\ application_state = 1 => ~servo[2].is_running
  /\ application_state = 2 => ~servo[1].is_running

\* servo A was running when the machine entered DETAIL_B and was stopped by
\* the transition
C7_Witness ==
  /\ ModeEvent /\ application_state = 2
  /\ pre.servo[1].is_running /\ ~servo[1].is_running

\* the button controller polled by the last operation, with the buttons it
\* saw pressed: menu c of app.update(), or the mode button's controller (3)
PolledBy(c, down) ==
  \/ op.name = "app.update" /\ c = application_state /\ down = pressed
  \/ op.name = "control.check" /\ c = 3
       /\ down = IF pin_pressed THEN {"mode"} ELSE {}

\* C8: when a button controller polls with exactly one button b pressed, and
\* its latest dispatch was of b at a poll with b alone pressed, and it has
\* seen no other button pressed since: if at most debounce_interval has passed
\* since that dispatch nothing is dispatched now, and if more has passed b's
\* action, and only it, is dispatched now.
C8_SameButtonDebounce ==
  \A c \in 0..3 : \A b \in Buttons \cup {"mode"} :
    (PolledBy(c, {b}) /\ pre.fired[c].button = b /\ pre.fired[c].alone)
    => IF ticks_diff(now, pre.fired[c].t) > ButtonDebounce
       THEN Len(dispatched) = 1 /\ dispatched[1].button = b
       ELSE dispatched = <<>>

\* a display button dispatched before is polled again within the interval
\* and later beyond it
C8_WitnessWithin ==
  \E c \in 0..2 : \E b \in Buttons :
    /\ PolledBy(c, {b}) /\ pre.fired[c].button = b /\ pre.fired[c].alone
    /\ ticks_diff(now, pre.fired[c].t) <= ButtonDebounce
    /\ dispatched = <<>>

C8_Witness ==
  \E c \in 0..2 : \E b \in Buttons :
    /\ PolledBy(c, {b}) /\ pre.fired[c].button = b /\ pre.fired[c].alone
    /\ ticks_diff(now, pre.fired[c].t) > ButtonDebounce
    /\ Len(dispatched) = 1 /\ dispatched[1].button = b

\* the first button of the mapping order that is in `down`
FirstPressed(down) ==
  MappingOrder[CHOOSE k \in 1..Len(MappingOrder) :
                 /\ MappingOrder[k] \in down
                 /\ \A j \in 1..(k - 1) : MappingOrder[j] \notin down]

\* C9: one timer serves all buttons of a controller: a poll dispatches at
\* most one action, a dispatch comes more than debounce_interval after the
\* controller's previous dispatch whichever button that was, and the button
\* dispatched is the first pressed one in mapping order.
C9_SharedDebounce ==
  \A c \in 0..2 :
    (PolledBy(c, pressed) /\ dispatched # <<>>)
    => /\ Len(dispatched) = 1
       /\ dispatched[1].button = FirstPressed(pressed)
       /\ pre.fired[c].t >= 0
            => ticks_diff(now, pre.fired[c].t) > ButtonDebounce

\* two buttons are down at one poll that dispatches: only the first fires
C9_Witness ==
  \E c \in 0..2 :
    /\ PolledBy(c, pressed) /\ Cardinality(pressed) >= 2
    /\ Len(dispatched) = 1 /\ dispatched[1].button = FirstPressed(pressed)

\* a button other than the one dispatched last is pressed within the window
\* and does not fire
C9_WitnessOtherButton ==
  \E c \in 0..2 : \E b \in pressed :
    /\ PolledBy(c, pressed) /\ pre.fired[c].t >= 0 /\ pre.fired[c].button # b
    /\ ticks_diff(now, pre.fired[c].t) <= ButtonDebounce
    /\ dispatched = <<>>

RotaryCalls(method) ==
  [k \in 1..Len(rotary_mapping) |->
     [button |-> "rotary", object |-> rotary_mapping[k], method |-> method]]

\* C10: a rotary.check() that samples the encoder (more than the 60 ms
\* debounce interval after the last sample) calls increment_value once on
\* every mapped servo if the count is above the recorded value, decrement_value
\* once on every mapped servo if it is below, and nothing if it is equal,
\* whatever the size of the change; a check that does not sample calls nothing.
C10_RotaryDispatch ==
  op.name = "rotary.check"
  => IF ticks_diff(now, pre.rotary.time_last_checked) > RotaryDebounce
     THEN /\ count > pre.rotary.old_value => dispatched = RotaryCalls("increment_value")
          /\ count < pre.rotary.old_value => dispatched = RotaryCalls("decrement_value")
          /\ count = pre.rotary.old_value => dispatched = <<>>
          /\ rotary.old_value = count
     ELSE dispatched = <<>> /\ rotary = pre.rotary

\* the count rose by two steps or more between samples while servo A had its
\* min bound selected: one increment, min_angle up by one step of 2
C10_Witness ==
  /\ op.name = "rotary.check"
  /\ count >= pre.rotary.old_value + 2
  /\ dispatched = RotaryCalls("increment_value")
  /\ pre.servo[1].min_position_being_updated
  /\ servo[1].min_angle = pre.servo[1].min_angle + 2

-----------------------------------------------------------------------------
(* Editing one selected field, src/steth-single.py *)

\* the field an editing flag selects, in the units of the source
Selects ==
  [ min_position_being_updated |-> "min_angle",
    max_position_being_updated |-> "max_angle",
    speed_being_updated |-> "speed",
    position_being_updated |-> "angle" ]

\* the ends of a field's domain, in the units the model keeps the field in
DomainLow == [min_angle |-> 0, max_angle |-> 0, speed |-> 1, angle |-> 0]

DomainHigh == [min_angle |-> 180, max_angle |-> 180, speed |-> 150, angle |-> Deg(180)]

\* increment_value()'s step for a field, in the units the model keeps it in
StepUp == [min_angle |-> 2, max_angle |-> 2, speed |-> 2, angle |-> Deg(2)]

\* field f is the one selected field of s and its value is not an end of its domain
OnlySelectedInside(s, flag) ==
  /\ EditFlags(s) = {flag}
  /\ s[Selects[flag]] # DomainLow[Selects[flag]]
  /\ s[Selects[flag]] # DomainHigh[Selects[flag]]

\* object i has just had increment_value() then decrement_value() called on it
IncrementedThenDecremented(i) ==
  /\ variant = "single"
  /\ Did("decrement_value", i)
  /\ prior.op = [name |-> "increment_value", obj |-> i]

AllFlags ==
  {"min_position_being_updated", "max_position_being_updated",
   "speed_being_updated", "position_being_updated"}

\* C11 as stated: with exactly one field selected and its value not at an end
\* of its domain, increment_value() followed by decrement_value() returns
\* that field to its original value.
C11_RoundTripRestores ==
  \A i \in DOMAIN servo :
    IncrementedThenDecremented(i) =>
      \A flag \in AllFlags :
        OnlySelectedInside(prior.servo[i], flag) =>
          servo[i][Selects[flag]] = prior.servo[i][Selects[flag]]

\* C11 (amended): with exactly one field selected, its value not at the low
\* end of its domain and at least one increment step below the high end,
\* increment_value() followed by decrement_value() returns min_angle,
\* max_angle or angle to its original value and leaves speed one above its
\* original value.
C11_RoundTrip ==
  \A i \in DOMAIN servo :
    IncrementedThenDecremented(i) =>
      \A flag \in AllFlags :
        LET f == Selects[flag]
            s0 == prior.servo[i]
        IN (OnlySelectedInside(s0, flag) /\ s0[f] + StepUp[f] <= DomainHigh[f]) =>
             servo[i][f] = IF f = "speed" THEN s0[f] + 1 ELSE s0[f]

\* the speed alone selected: 20 goes up to 22 and comes down to 21
C11_Witness ==
  \E i \in DOMAIN servo :
    /\ IncrementedThenDecremented(i)
    /\ OnlySelectedInside(prior.servo[i], "speed_being_updated")
    /\ prior.servo[i].speed = 20
    /\ pre.servo[i].speed = 22
    /\ servo[i].speed = 21

\* the position alone selected: 90 goes up to 92 and comes back to 90
C11_WitnessPosition ==
  \E i \in DOMAIN servo :
    /\ IncrementedThenDecremented(i)
    /\ OnlySelectedInside(prior.servo[i], "position_being_updated")
    /\ prior.servo[i].angle = Deg(90)
    /\ pre.servo[i].angle = Deg(92)
    /\ servo[i].angle = Deg(90)

\* the position alone selected one degree below the top: 179 is clamped to
\* 180 and comes down to 178
C11_WitnessNearTop ==
  \E i \in DOMAIN servo :
    /\ IncrementedThenDecremented(i)
    /\ OnlySelectedInside(prior.servo[i], "position_being_updated")
    /\ prior.servo[i].angle = Deg(179)
    /\ servo[i].angle = Deg(178)

-----------------------------------------------------------------------------
(* The sweep at its bounds, both variants *)

\* milliseconds between object i's previous update() and the one just made
Elapsed(i) == ticks_diff(now, pre.servo[i].time_ref)

\* C12 as stated: a running servo with min_angle = 0, max_angle = 180,
\* speed = 20 and angle = 90 moving forward, updated once after 4.5 s, is left
\* at angle 180 with its direction flipped to reverse.
C12_ExactLandingFlips ==
  \A i \in DOMAIN servo :
    ( /\ Did("update", i)
      /\ Running(pre.servo[i])
      /\ pre.servo[i].min_angle = 0 /\ pre.servo[i].max_angle = 180
      /\ pre.servo[i].speed = 20
      /\ pre.servo[i].angle = Deg(90) /\ ~pre.servo[i].reversing
      /\ Elapsed(i) = 4500 )
    => (servo[i].angle = Deg(180) /\ servo[i].reversing)

-----------------------------------------------------------------------------
(* What the operations on one ServoController leave alone *)

\* the object without its update timestamp
Timeless(s) == [f \in DOMAIN s \ {"time_ref"} |-> s[f]]

\* C13: in steth-single.py an update() of a servo that is not running leaves
\* angle, _reversing, min_angle, max_angle, speed and the four editing flags
\* as they were, whatever time has elapsed.
C13_StoppedUpdateKeepsState ==
  \A i \in DOMAIN servo :
    (variant = "single" /\ Did("update", i) /\ ~pre.servo[i].is_running)
    => Timeless(servo[i]) = Timeless(pre.servo[i])

\* a stopped servo with room to move and time elapsed is updated
C13_Witness ==
  \E i \in DOMAIN servo :
    /\ variant = "single" /\ Did("update", i) /\ ~pre.servo[i].is_running
    /\ Elapsed(i) = 4500
    /\ pre.servo[i].speed = 20
    /\ pre.servo[i].min_angle = 0 /\ pre.servo[i].max_angle = 180
    /\ pre.servo[i].angle = Deg(90)
    /\ servo[i].angle = Deg(90)
    /\ servo[i].time_ref = now

\* the values an edit can change, and the motion state
Edited(s) ==
  [ min_angle |-> s.min_angle, max_angle |-> s.max_angle, speed |-> s.speed,
    angle |-> s.angle, reversing |-> s.reversing,
    is_running |-> Running(s) ]

\* C14: in both variants, increment_value() and decrement_value() on a servo
\* none of whose editing flags is true leave min_angle, max_angle, speed,
\* angle, the direction and is_running unchanged.
C14_NothingSelectedNoEdit ==
  \A i \in DOMAIN servo :
    ( /\ Did("increment_value", i) \/ Did("decrement_value", i)
      /\ EditFlags(pre.servo[i]) = {} )
    => Edited(servo[i]) = Edited(pre.servo[i])

\* decrement_value() with nothing selected, on a servo whose every value
\* could move down
C14_Witness ==
  \E i \in DOMAIN servo :
    /\ Did("decrement_value", i)
    /\ EditFlags(pre.servo[i]) = {}
    /\ pre.servo[i].min_angle = 90 /\ pre.servo[i].max_angle = 90
    /\ pre.servo[i].angle = Deg(90) /\ pre.servo[i].speed = 20
    /\ servo[i] = pre.servo[i]

\* increment_value() with nothing selected, in stethoscope-simple.py
C14_WitnessSimple ==
  \E i \in DOMAIN servo :
    /\ variant = "simple"
    /\ Did("increment_value", i)
    /\ EditFlags(pre.servo[i]) = {}
    /\ pre.servo[i].min_angle = 0 /\ pre.servo[i].max_angle = 0
    /\ servo[i] = pre.servo[i]

-----------------------------------------------------------------------------
(* Ranges of the position and of the speed *)

\* C15: in every reachable state each servo's angle lies in [0, 180], so the
\* value move() hands to the actuator, int(angle - 90), lies in [-90, 90].
C15_AngleInRange ==
  \A i \in DOMAIN servo :
    /\ 0 <= servo[i].angle /\ servo[i].angle <= Deg(180)
    /\ -90 <= move(servo[i]) /\ move(servo[i]) <= 90

\* a position edit that would pass 180 stops there, and the actuator is
\* handed 90
C15_Witness ==
  \E i \in DOMAIN servo :
    /\ Did("increment_value", i)
    /\ pre.servo[i].position_being_updated
    /\ pre.servo[i].angle = Deg(179)
    /\ servo[i].angle = Deg(180)
    /\ move(servo[i]) = 90

\* a sweep that would pass 0 stops there, and the actuator is handed -90
C15_WitnessSweep ==
  \E i \in DOMAIN servo :
    /\ Did("update", i)
    /\ Running(pre.servo[i]) /\ pre.servo[i].reversing
    /\ pre.servo[i].angle - pre.servo[i].speed * Elapsed(i) < 0
    /\ servo[i].angle = 0
    /\ move(servo[i]) = -90

\* C16: speed is always a whole number in [1, 150]; increment_value() with
\* speed selected adds 2 and stops at 150, decrement_value() with speed
\* selected subtracts 1 and stops at 1, and nothing else changes speed.
C16_SpeedRange ==
  \A i \in DOMAIN servo :
    /\ servo[i].speed \in 1..150
    /\ op.name # "init" =>
         servo[i].speed =
           IF Did("increment_value", i) /\ pre.servo[i].speed_being_updated
           THEN (IF pre.servo[i].speed + 2 > 150 THEN 150 ELSE pre.servo[i].speed + 2)
           ELSE IF Did("decrement_value", i) /\ pre.servo[i].speed_being_updated
           THEN (IF pre.servo[i].speed - 1 < 1 THEN 1 ELSE pre.servo[i].speed - 1)
           ELSE pre.servo[i].speed

\* speed 149 selected and incremented stops at 150
C16_Witness ==
  \E i \in DOMAIN servo :
    /\ Did("increment_value", i)
    /\ pre.servo[i].speed_being_updated
    /\ pre.servo[i].speed = 149
    /\ servo[i].speed = 150

\* speed 1 selected and decremented stays at 1
C16_WitnessLow ==
  \E i \in DOMAIN servo :
    /\ Did("decrement_value", i)
    /\ pre.servo[i].speed_being_updated
    /\ pre.servo[i].speed = 1
    /\ servo[i].speed = 1

-----------------------------------------------------------------------------
(* rescale(), both variants: called once on arguments drawn from the sets   *)
(* below, which hold the ranges draw() uses (0, 180 to 50, 190), the range  *)
(* of the commented-out actuator mapping (-90, 90), empty and reversed      *)
(* ranges, and values of x inside, on the ends of and outside the input     *)
(* range, whole and fractional.                                             *)

RescaleX == {Deg(-5), 0, Deg(1) + 500, Deg(45), Deg(90), Deg(179), Deg(180), Deg(185)}

RescaleIn == {-90, 0, 90, 180}

RescaleOut == {-90, 0, 50, 190}

InitRescale ==
  /\ variant \in {"single", "simple"}
  /\ servo = [i \in {1, 2} |-> IF i = 1 THEN ServoController(90, 20, 0)
                               ELSE ServoController(90, 60, 0)]
  /\ application_state = 0
  /\ menu = [m \in 0..2 |-> [time_last_checked |-> 0]]
  /\ control = [time_last_checked |-> 0]
  /\ rotary = [time_last_checked |-> 0, old_value |-> 0, new_value |-> 0]
  /\ now = 0
  /\ pressed = {}
  /\ pin_pressed = FALSE
  /\ count = 0
  /\ pc = "rescale"
  /\ loops = 0
  /\ calls = 0
  /\ op = [name |-> "init", obj |-> 0]
  /\ dispatched = <<>>
  /\ fired = [m \in 0..3 |-> NoFire]
  /\ inputs = NoInputs
  /\ drawn = [i \in DOMAIN servo |-> draw(servo[i])]
  /\ ticked = <<>>
  /\ prior = NoPrior
  /\ \E x \in RescaleX : \E in_min \in RescaleIn : \E in_max \in RescaleIn :
       \E out_min \in RescaleOut : \E out_max \in RescaleOut :
         rescaled = [x |-> x, in_min |-> in_min, in_max |-> in_max,
                     out_min |-> out_min, out_max |-> out_max,
                     result |-> 0, done |-> FALSE]
  /\ pre = Snapshot

\* rescale(x, in_min, in_max, out_min, out_max)
CallRescale ==
  /\ pc = "rescale"
  /\ ~rescaled.done
  /\ rescaled' = [rescaled EXCEPT
                    !.result = rescale(rescaled.x, rescaled.in_min, rescaled.in_max,
                                       rescaled.out_min, rescaled.out_max),
                    !.done = TRUE]
  /\ op' = [name |-> "rescale", obj |-> 0]
  /\ UNCHANGED <<variant, servo, application_state, menu, control, rotary, now,
                 pressed, pin_pressed, count, pc, loops, calls, pre, dispatched,
                 fired, inputs, drawn, ticked, prior>>

NextRescale == CallRescale

SpecRescale == InitRescale /\ [][NextRescale]_vars

\* r is the whole number next to n / d on the side of zero (d > 0)
TruncationOf(r, n, d) ==
  IF n >= 0 THEN r * d <= n /\ n < (r + 1) * d
            ELSE (r - 1) * d < n /\ n <= r * d

\* C17: rescale() with in_min = in_max returns out_min for every x; otherwise
\* it returns (x - in_min) * (out_max - out_min) / (in_max - in_min) + out_min
\* truncated toward zero, and so is defined for the input range 0..180 that
\* draw() uses.
C17_RescaleDefined ==
  rescaled.done =>
    LET d == (rescaled.in_max - rescaled.in_min) * AngleScale
        n == (rescaled.x - rescaled.in_min * AngleScale)
               * (rescaled.out_max - rescaled.out_min) + rescaled.out_min * d
    IN IF rescaled.in_min = rescaled.in_max
       THEN rescaled.result = rescaled.out_min
       ELSE IF d > 0 THEN TruncationOf(rescaled.result, n, d)
                     ELSE TruncationOf(rescaled.result, -n, -d)

\* an empty input range: out_min comes back, whatever x
C17_Witness ==
  /\ rescaled.done
  /\ rescaled.in_min = 90 /\ rescaled.in_max = 90
  /\ rescaled.x = Deg(185)
  /\ rescaled.out_min = 50 /\ rescaled.out_max = 190
  /\ rescaled.result = 50

\* draw()'s range with a fractional image: 179 degrees is pixel 189.2, drawn at 189
C17_WitnessDraw ==
  /\ rescaled.done
  /\ rescaled.in_min = 0 /\ rescaled.in_max = 180
  /\ rescaled.out_min = 50 /\ rescaled.out_max = 190
  /\ rescaled.x = Deg(179)
  /\ rescaled.result = 189

\* a negative image is truncated toward zero: -89.25 becomes -89
C17_WitnessNegative ==
  /\ rescaled.done
  /\ rescaled.in_min = 0 /\ rescaled.in_max = 180
  /\ rescaled.out_min = -90 /\ rescaled.out_max = 0
  /\ rescaled.x = Deg(1) + 500
  /\ rescaled.result = -89

\* C18 as stated: for a running servo with min_angle < max_angle and
\* speed > 0, an update() after a positive elapsed time that leaves the angle
\* equal to max_angle leaves the direction reverse, and one that leaves it
\* equal to min_angle leaves the direction forward: the servo turns round in
\* the update that brings it to a bound.
C18_TurnsAtBound ==
  \A i \in DOMAIN servo :
    ( /\ Did("update", i)
      /\ Running(pre.servo[i])
      /\ pre.servo[i].min_angle < pre.servo[i].max_angle
      /\ pre.servo[i].speed > 0
      /\ Elapsed(i) > 0 )
    => /\ servo[i].angle = Deg(servo[i].max_angle) => servo[i].reversing
       /\ servo[i].angle = Deg(servo[i].min_angle) => ~servo[i].reversing

-----------------------------------------------------------------------------
(* The sweep left to itself: one running ServoController of either variant  *)
(* with fixed bounds min_angle < max_angle and a fixed speed, on which the  *)
(* main loop calls update() again and again, each time a positive number of *)
(* milliseconds after the last.  update() uses only the difference of two   *)
(* clock readings, so the readings are kept relative to the previous        *)
(* update: `now` stays where it is and _time_ref is set back to it.         *)

SweepBounds == {<<0, 180>>, <<88, 92>>, <<0, 2>>}

\* milliseconds between two update() calls
SweepElapsed == {100, 4500}

InitSweep ==
  /\ variant \in {"single", "simple"}
  /\ \E b \in SweepBounds : \E a \in DriverAngles(b) :
       \E sp \in DriverSpeeds(variant) : \E rev \in BOOLEAN :
         servo = [i \in {1} |->
                    IF variant = "single"
                    THEN [run(DriverObject(variant, b, a, sp, FALSE))
                            EXCEPT !.reversing = rev]
                    ELSE [DriverObject(variant, b, a, sp, FALSE)
                            EXCEPT !.reversing = rev]]
  /\ application_state = 0
  /\ menu = [m \in 0..2 |-> [time_last_checked |-> 0]]
  /\ control = [time_last_checked |-> 0]
  /\ rotary = [time_last_checked |-> 0, old_value |-> 0, new_value |-> 0]
  /\ now = 0
  /\ pressed = {}
  /\ pin_pressed = FALSE
  /\ count = 0
  /\ pc = "sweep"
  /\ loops = 0
  /\ calls = 0
  /\ op = [name |-> "init", obj |-> 0]
  /\ dispatched = <<>>
  /\ fired = [m \in 0..3 |-> NoFire]
  /\ inputs = NoInputs
  /\ drawn = [i \in DOMAIN servo |-> draw(servo[i])]
  /\ ticked = <<>>
  /\ prior = NoPrior
  /\ rescaled = NoRescale
  /\ pre = Snapshot

\* update() on the servo, dt milliseconds after its previous update()
Tick ==
  \E i \in DOMAIN servo : \E dt \in SweepElapsed :
    /\ pc = "sweep"
    /\ LET s2 == IF variant = "single" THEN update(servo[i], now + dt)
                 ELSE update_simple(servo[i], now + dt)
       IN servo' = [servo EXCEPT ![i] = [s2 EXCEPT !.time_ref = now]]
    /\ op' = [name |-> "update", obj |-> i]
    /\ pre' = Snapshot
    /\ UNCHANGED <<variant, application_state, menu, control, rotary, now,
                   pressed, pin_pressed, count, pc, loops, calls, dispatched,
                   fired, inputs, drawn, ticked, prior, rescaled>>

NextSweep == Tick

\* the main loop never ends, so update() is called again and again
SpecSweep == InitSweep /\ [][NextSweep]_vars /\ WF_vars(Tick)

\* the last update() turned the servo round
Flipped(i) == Did("update", i) /\ servo[i].reversing # pre.servo[i].reversing

\* C19: a servo that stays running with fixed bounds min_angle < max_angle
\* and speed > 0, updated again and again after positive elapsed times, is
\* at max_angle infinitely often, at min_angle infinitely often, and turns
\* round infinitely often.
C19_SweepsForever ==
  \A i \in {1} :
    /\ []<>(servo[i].angle = Deg(servo[i].max_angle))
    /\ []<>(servo[i].angle = Deg(servo[i].min_angle))
    /\ []<>Flipped(i)

\* the servo, having crept up to max_angle and turned there, has come all
\* the way down the range 0..180 in steps and turns round at min_angle
C19_Witness ==
  \E i \in DOMAIN servo :
    /\ pc = "sweep"
    /\ Flipped(i)
    /\ servo[i].min_angle = 0 /\ servo[i].max_angle = 180
    /\ servo[i].speed = 20
    /\ pre.servo[i].angle = Deg(2)
    /\ servo[i].angle = 0
    /\ ~servo[i].reversing

-----------------------------------------------------------------------------
(* ApplicationController.update(), checked under Spec *)

\* C20: on every ApplicationController.update() the state alone selects what
\* is serviced: in OVERVIEW menu 0 is polled and both servos are updated then
\* drawn; in DETAIL_A only menu 1 and servo A; in DETAIL_B only menu 2 and
\* servo B; and no variable of a servo that is not serviced is changed by
\* the call.
C20_StateSelectsService ==
  op.name = "app.update" =>
    LET st == pre.application_state
        check == [object |-> 0, method |-> "check", menu |-> st]
        a == << [object |-> 1, method |-> "update"], [object |-> 1, method |-> "draw"] >>
        b == << [object |-> 2, method |-> "update"], [object |-> 2, method |-> "draw"] >>
        objects == CASE st = 0 -> {1, 2} [] st = 1 -> {1} [] st = 2 -> {2}
    IN /\ application_state = st
       /\ ticked = CASE st = 0 -> <<check>> \o a \o b
                     [] st = 1 -> <<check>> \o a
                     [] st = 2 -> <<check>> \o b
       /\ \A m \in DOMAIN menu : m # st => menu[m] = pre.menu[m]
       /\ \A i \in DOMAIN servo :
            IF i \in objects
            THEN servo[i].time_ref = now /\ drawn[i] = draw(servo[i])
            ELSE servo[i] = pre.servo[i] /\ drawn[i] = pre.drawn[i]

\* DETAIL_B: a button of menu 2 is dispatched to servo B, which is updated
\* and drawn, while servo A, last updated earlier, is left as it was
C20_Witness ==
  /\ op.name = "app.update"
  /\ application_state = 2
  /\ dispatched # <<>>
  /\ servo[2] # pre.servo[2]
  /\ servo[2].time_ref = now
  /\ servo[1] = pre.servo[1]
  /\ servo[1].time_ref < now

\* OVERVIEW: a button of menu 0 is dispatched and both servos are updated
C20_WitnessOverview ==
  /\ op.name = "app.update"
  /\ application_state = 0
  /\ dispatched # <<>>
  /\ \A i \in DOMAIN servo :
       pre.servo[i].time_ref < now /\ servo[i].time_ref = now

-----------------------------------------------------------------------------
(* Bound preview, src/steth-single.py *)

\* the servo is stopped with position and the bound of `flag` both selected,
\* the arm standing on that bound
Previewing(s, flag) ==
  /\ ~Running(s)
  /\ s[flag] /\ s.position_being_updated
  /\ s.angle = Deg(s[Selects[flag]])

\* C21: position_and_min_setting_toggle() leaves angle = min_angle and
\* position_being_updated = min_position_being_updated, and
\* position_and_max_setting_toggle() the same for max, whether the call
\* selects or deselects the bound; and while the servo is stopped with the
\* bound and position both selected, increment_value() and decrement_value()
\* keep the angle equal to that bound.
C21_PreviewFollowsBound ==
  \A i \in DOMAIN servo :
    /\ Did("position_and_min_setting_toggle", i) =>
         /\ servo[i].angle = Deg(servo[i].min_angle)
         /\ servo[i].position_being_updated = servo[i].min_position_being_updated
         /\ servo[i].min_position_being_updated = ~pre.servo[i].min_position_being_updated
    /\ Did("position_and_max_setting_toggle", i) =>
         /\ servo[i].angle = Deg(servo[i].max_angle)
         /\ servo[i].position_being_updated = servo[i].max_position_being_updated
         /\ servo[i].max_position_being_updated = ~pre.servo[i].max_position_being_updated
    /\ (Did("increment_value", i) \/ Did("decrement_value", i)) =>
         \A flag \in {"min_position_being_updated", "max_position_being_updated"} :
           Previewing(pre.servo[i], flag) => Previewing(servo[i], flag)

\* the min preview is deselected while the arm stands elsewhere, and the arm
\* is moved to min_angle all the same
C21_Witness ==
  \E i \in DOMAIN servo :
    /\ Did("position_and_min_setting_toggle", i)
    /\ pre.servo[i].min_position_being_updated
    /\ pre.servo[i].angle # Deg(pre.servo[i].min_angle)
    /\ ~servo[i].min_position_being_updated /\ ~servo[i].position_being_updated
    /\ servo[i].angle = Deg(servo[i].min_angle)

\* the max preview is selected at 90 and the encoder raises max_angle and
\* the arm together to 92
C21_WitnessEdit ==
  \E i \in DOMAIN servo :
    /\ Did("increment_value", i)
    /\ Previewing(pre.servo[i], "max_position_being_updated")
    /\ pre.servo[i].max_angle = 90
    /\ servo[i].max_angle = 92 /\ servo[i].angle = Deg(92)

-----------------------------------------------------------------------------
(* The program src/steth-single.py some time after power-on: the main loop *)
(* of Spec, started from a state it reaches only after many iterations.    *)
(* The user has turned the encoder to widen both servos' bounds or left    *)
(* them alone, may have selected one servo's min bound in OVERVIEW and     *)
(* released the button, has advanced to DETAIL_A or on to DETAIL_B with    *)
(* the mode button and released it, and has stayed in that mode for a      *)
(* while; the encoder counter stands at 0 or at an end of its range.       *)

\* both servos' (min_angle, max_angle)
LateBounds == {<<90, 90>>, <<0, 180>>}

\* the servo whose min bound was selected in OVERVIEW; 0: none
LateSelected == {0, 1, 2}

\* the encoder counter
LateCounts == {0, RotaryMin, RotaryMax}

\* milliseconds spent in the current mode so far
LateStay == {20, 2000}

\* the servos on entering mode st, from the constructed ones with bounds b
\* and the min bound of servo sel selected
LateServos(st, b, sel) ==
  LET edited == [i \in {1, 2} |->
                   [ConstructedServos[i] EXCEPT !.min_angle = b[1], !.max_angle = b[2]]]
      chosen == [i \in {1, 2} |-> IF i = sel
                                  THEN min_position_setting_toggle(edited[i])
                                  ELSE edited[i]]
  IN IF st = 1 THEN handle_state_change(1, chosen)
     ELSE handle_state_change(2, handle_state_change(1, chosen))

InitLate ==
  \E st \in {1, 2} : \E b \in LateBounds : \E sel \in LateSelected :
  \E c \in LateCounts : \E stay \in LateStay :
    LET selected == 1000     \* when the min bound was selected in OVERVIEW
        entered == 3000      \* when the mode button brought the machine to st
    IN
    /\ variant = "single"
    /\ now = entered + stay
    /\ servo = [i \in {1, 2} |->
                  [LateServos(st, b, sel)[i] EXCEPT
                     !.time_ref = IF i \in serviced(st) THEN entered + stay
                                  ELSE entered - 20]]
    /\ application_state = st
    /\ menu = [m \in 0..2 |->
                 [time_last_checked |-> IF m = 0 /\ sel # 0 THEN selected ELSE 0]]
    /\ control = [time_last_checked |-> entered]
    /\ rotary = [time_last_checked |-> entered + stay - RotaryDebounce,
                 old_value |-> c, new_value |-> c]
    /\ pressed = {}
    /\ pin_pressed = FALSE
    /\ count = c
    /\ pc = "loop"
    /\ loops = MaxLoops - 2
    /\ calls = 0
    /\ op = [name |-> "init", obj |-> 0]
    /\ dispatched = <<>>
    /\ fired = [m \in 0..3 |->
                  IF m = 3 THEN [t |-> entered, button |-> "mode", alone |-> TRUE]
                  ELSE IF m = 0 /\ sel # 0
                  THEN [t |-> selected, button |-> IF sel = 1 THEN "A" ELSE "B",
                        alone |-> TRUE]
                  ELSE NoFire]
    /\ inputs = [mode_events |-> st, touched |-> TRUE]
    /\ drawn = [i \in {1, 2} |-> draw(LateServos(st, b, sel)[i])]
    /\ ticked = <<>>
    /\ prior = NoPrior
    /\ rescaled = NoRescale
    /\ pre = Snapshot

SpecLate == InitLate /\ [][Next]_vars

\* the encoder was last sampled at `from` and has since been turned k steps
\* (k > 0: forward), and rotary.check() has just sampled it
SampledAfterTurn(from, k) ==
  /\ op.name = "rotary.check"
  /\ ticks_diff(now, pre.rotary.time_last_checked) > RotaryDebounce
  /\ pre.rotary.old_value = from
  /\ count = wrap(from + k)

\* C22: check() compares raw counter values and the counter wraps in
\* [-5000, +5000], so a forward turn taken at +5000 is dispatched as a
\* decrement to every mapped servo, and a backward turn taken at -5000 as
\* an increment.
C22_WrapReversesDispatch ==
  \A k \in 1..2 :
    /\ SampledAfterTurn(RotaryMax, k) =>
         /\ count < RotaryMax
         /\ dispatched = RotaryCalls("decrement_value")
         /\ \A i \in DOMAIN servo : servo[i] = decrement_value(pre.servo[i])
    /\ SampledAfterTurn(RotaryMin, -k) =>
         /\ count > RotaryMin
         /\ dispatched = RotaryCalls("increment_value")
         /\ \A i \in DOMAIN servo : servo[i] = increment_value(pre.servo[i])

\* two steps forward at +5000 with servo A's min bound selected: min_angle
\* goes down
C22_Witness ==
  /\ SampledAfterTurn(RotaryMax, 2)
  /\ pre.servo[1].min_position_being_updated
  /\ servo[1].min_angle = pre.servo[1].min_angle - 2

\* one step backward at -5000 with servo B's min bound selected: min_angle
\* goes up, dragging max_angle
C22_WitnessBackward ==
  /\ SampledAfterTurn(RotaryMin, -1)
  /\ pre.servo[2].min_position_being_updated
  /\ pre.servo[2].min_angle = 90
  /\ servo[2].min_angle = 92 /\ servo[2].max_angle = 92

-----------------------------------------------------------------------------
(* Selections that can stand together, src/steth-single.py *)

\* C23: in every reachable state of a servo at most one of the min, max and
\* speed flags is true and speed and position are never both true: the
\* only flags that can be true together are position with min or position
\* with max.
C23_SelectionShapes ==
  \A i \in DOMAIN servo :
    variant = "single" =>
      \/ Cardinality(EditFlags(servo[i])) <= 1
      \/ EditFlags(servo[i]) = {"position_being_updated", "min_position_being_updated"}
      \/ EditFlags(servo[i]) = {"position_being_updated", "max_position_being_updated"}

\* with position and max selected, selecting the speed deselects both
C23_Witness ==
  \E i \in DOMAIN servo :
    /\ Did("speed_setting_toggle", i)
    /\ EditFlags(pre.servo[i]) = {"position_being_updated", "max_position_being_updated"}
    /\ EditFlags(servo[i]) = {"speed_being_updated"}

\* with the speed selected, a bound preview deselects it
C23_WitnessPreview ==
  \E i \in DOMAIN servo :
    /\ Did("position_and_min_setting_toggle", i)
    /\ EditFlags(pre.servo[i]) = {"speed_being_updated"}
    /\ EditFlags(servo[i]) = {"position_being_updated", "min_position_being_updated"}

-----------------------------------------------------------------------------
(* The sweep after bound edits, both variants *)

\* C24: after every update() of a running servo, whatever bound edits came
\* before it, the angle does not lie beyond the bound it was moving toward:
\* at most max_angle after a forward update, at least min_angle after a
\* reverse one.
C24_NotBeyondBoundAhead ==
  \A i \in DOMAIN servo :
    (Did("update", i) /\ Running(pre.servo[i])) =>
      IF pre.servo[i].reversing
      THEN servo[i].angle >= Deg(servo[i].min_angle)
      ELSE servo[i].angle <= Deg(servo[i].max_angle)

\* max_angle was edited to below the arm: the forward update brings the arm
\* back to it
C24_Witness ==
  \E i \in DOMAIN servo :
    /\ Did("update", i) /\ Running(pre.servo[i])
    /\ ~pre.servo[i].reversing
    /\ pre.servo[i].angle > Deg(pre.servo[i].max_angle)
    /\ servo[i].angle = Deg(servo[i].max_angle)

\* max_angle was edited to below the arm while it moves in reverse: the
\* update keeps it above min_angle and it is still beyond max_angle
C24_WitnessBehind ==
  \E i \in DOMAIN servo :
    /\ Did("update", i) /\ Running(pre.servo[i])
    /\ pre.servo[i].reversing
    /\ servo[i].angle > Deg(servo[i].max_angle)

-----------------------------------------------------------------------------
(* The encoder across modes, checked under SpecLate *)

\* C25: the encoder is polled in every mode and drives both servos, so in a
\* detail mode a turn also edits the selected fields of the servo that is
\* not shown: every call the poll dispatches is made on that servo too; and
\* a mode change leaves every editing flag as it was.
C25_EncoderReachesHiddenServo ==
  /\ pc = "control" => op.name = "rotary.check"
  /\ (op.name = "rotary.check" /\ dispatched # <<>>) =>
       \A i \in DOMAIN servo \ serviced(application_state) :
         /\ \E k \in DOMAIN dispatched : dispatched[k].object = i
         /\ servo[i] = getattr_call(dispatched[1].method, pre.servo[i])
  /\ op.name = "control.check" =>
       \A i \in DOMAIN servo : EditFlags(servo[i]) = EditFlags(pre.servo[i])

\* DETAIL_B: servo A's min bound, selected back in OVERVIEW, is moved by a turn
C25_Witness ==
  /\ op.name = "rotary.check"
  /\ application_state = 2
  /\ pre.servo[1].min_position_being_updated
  /\ servo[1].min_angle # pre.servo[1].min_angle

\* DETAIL_A: servo B's min bound, selected back in OVERVIEW, is moved by a turn
C25_WitnessDetailA ==
  /\ op.name = "rotary.check"
  /\ application_state = 1
  /\ pre.servo[2].min_position_being_updated
  /\ servo[2].min_angle # pre.servo[2].min_angle

\* the mode button takes the machine from DETAIL_B to OVERVIEW and servo A's
\* min bound stays selected
C25_WitnessModeChange ==
  /\ op.name = "control.check"
  /\ pre.application_state = 2 /\ application_state = 0
  /\ servo[1].min_position_being_updated

-----------------------------------------------------------------------------
(* Time that a servo spends unserviced, checked under SpecLate *)

\* how far object i's arm was moved by the last operation
Displacement(i) ==
  IF servo[i].angle >= pre.servo[i].angle
  THEN servo[i].angle - pre.servo[i].angle
  ELSE pre.servo[i].angle - servo[i].angle

\* C26 as stated: in every update() that changes a running servo's angle,
\* the displacement is at most speed times the time since the previous
\* main-loop tick (one loop iteration), also on the first update() after the
\* machine returns to OVERVIEW from DETAIL_B.  Stated for the
\* ApplicationController.update() calls that dispatch no button, where the
\* arm is moved by update() alone.
C26_OnlyLoopTimeMoves ==
  (op.name = "app.update" /\ dispatched = <<>>) =>
    \A i \in DOMAIN servo :
      (servo[i].is_running /\ servo[i].angle # pre.servo[i].angle) =>
        \E dt \in LoopElapsed : Displacement(i) <= servo[i].speed * dt


------------------------------------------------------------------------------
(* Level-triggered dispatch and the per-mode timers, checked under Spec *)

\* the debounce timer of button controller c: menu c, or the mode button's (3)
TimerOf(c, s) ==
  IF c = 3 THEN s.control.time_last_checked ELSE s.menu[c].time_last_checked

\* controller c dispatched button b at the previous loop iteration, dt ago,
\* and b is down at this iteration too: b has been held since, because the
\* inputs change only between two iterations
HeldSince(c, b, down) ==
  /\ PolledBy(c, down)
  /\ b \in down
  /\ pre.fired[c].button = b
  /\ \E dt \in LoopElapsed : pre.fired[c].t + dt = now

\* C27: dispatch looks at the level of the buttons only: a poll of a button
\* controller dispatches exactly when some button is down and more than
\* debounce_interval has passed on the controller's timer, and then the timer
\* restarts; so a button held from the controller's previous dispatch is
\* dispatched again at the first poll that comes more than debounce_interval
\* after it, with no release in between.
C27_LevelTriggered ==
  \A c \in 0..3 :
    LET down == IF c = 3 THEN (IF pin_pressed THEN {"mode"} ELSE {}) ELSE pressed
    IN PolledBy(c, down) =>
         /\ dispatched # <<>>
              <=> (down # {}
                   /\ ticks_diff(now, TimerOf(c, pre)) > ButtonDebounce)
         /\ dispatched # <<>> => TimerOf(c, Snapshot) = now
         /\ \A b \in down :
              (HeldSince(c, b, down) /\ down = {b}
               /\ ticks_diff(now, pre.fired[c].t) > ButtonDebounce)
              => /\ Len(dispatched) = 1
                 /\ dispatched[1].button = b
                 /\ fired[c].t = now

\* the mode button is held over two consecutive iterations and advances the
\* mode at both
C27_Witness ==
  /\ HeldSince(3, "mode", {"mode"})
  /\ ticks_diff(now, pre.fired[3].t) > ButtonDebounce
  /\ ModeEvent
  /\ inputs.mode_events >= 2

\* a display button is held over two consecutive iterations in one mode and
\* its action is dispatched at both
C27_WitnessDisplay ==
  \E c \in 0..2 : \E b \in Buttons :
    /\ HeldSince(c, b, {b})
    /\ ticks_diff(now, pre.fired[c].t) > ButtonDebounce
    /\ Len(dispatched) = 1 /\ dispatched[1].button = b

\* the mode advanced in this loop iteration
ModeAdvancedNow == fired[3].t = now /\ inputs.mode_events >= 1

\* C28: every mode's button controller has its own timer, which holds the
\* time of that controller's own latest dispatch and is changed by nothing
\* else; so in the loop iteration in which the mode advances, a display button
\* that is down is dispatched by the new mode's controller, however recently
\* another mode's controller dispatched it.
C28_TimerPerMode ==
  /\ \A m \in 0..2 :
       menu[m].time_last_checked = IF fired[m].t >= 0 THEN fired[m].t ELSE 0
  /\ op.name = "app.update" =>
       /\ \A m \in 0..2 : m # application_state => menu[m] = pre.menu[m]
       /\ (ModeAdvancedNow /\ pressed # {}) =>
            /\ Len(dispatched) = 1
            /\ dispatched[1].button = FirstPressed(pressed)
            /\ menu[application_state].time_last_checked = now

\* one press gives two actions within one debounce interval: the button
\* dispatched by another mode's controller at most debounce_interval ago is
\* still down when the mode advances, and is dispatched again
C28_Witness ==
  \E m \in 0..2 : \E b \in Buttons :
    /\ op.name = "app.update" /\ ModeAdvancedNow
    /\ m # application_state
    /\ pre.fired[m].button = b /\ pre.fired[m].t >= 0
    /\ \E dt \in LoopElapsed : pre.fired[m].t + dt = now
    /\ ticks_diff(now, pre.fired[m].t) <= ButtonDebounce
    /\ pressed = {b}
    /\ Len(dispatched) = 1 /\ dispatched[1].button = b

====
